---- MODULE Spec2Model ----
(* Minesweeper (src/minesweeper.py): the Game and Cell objects and the     *)
(* event loop of __main__, as a state machine.  The board dimensions and   *)
(* the mine count are the arguments of Game.__init__, drawn from small     *)
(* sets; the random draw of set_bombs is a nondeterministic choice.        *)
EXTENDS Integers, Sequences, FiniteSets, TLC

VARIABLES game, pc, last

vars == <<game, pc, last>>

-----------------------------------------------------------------------------
(* Bounds of the model *)

(* Spec, the whole event loop: boards of at most MaxX columns, MaxY rows    *)
(* and MaxCells cells, with at most MaxBombs bombs or with one safe cell,  *)
(* and at most MaxFlagged cells flagged at a time                          *)
MaxX == 3
MaxY == 3
MaxCells == 6
MaxBombs == 1
MaxFlagged == 1

(* SpecWide, left clicks alone: larger boards *)
WideX == 3
WideY == 3
WideCells == 9
WideBombs == 2

(* Cell.surrounding starts as None; None == 0 is False in Python.  None is *)
(* modelled by a value that is no count.                                   *)
None == -1

-----------------------------------------------------------------------------
(* Helpers *)

RECURSIVE SumOver(_, _)
SumOver(S, f) ==
    IF S = {} THEN 0
    ELSE LET e == CHOOSE e \in S : TRUE
         IN f[e] + SumOver(S \ {e}, f)

-----------------------------------------------------------------------------
(* Cell *)

(* Cell.__init__ *)
Cell(x_cell, y_cell) ==
    [x |-> x_cell, y |-> y_cell,
     is_clicked |-> FALSE, is_bomb |-> FALSE,
     surrounding |-> None, is_flagged |-> FALSE]

(* a click that leaves closed the cells with a bomb around them *)
click_update_numbered(c) ==
    IF c.surrounding > 0 THEN c ELSE [c EXCEPT !.is_clicked = TRUE]

(* Cell.click_update: the cell after the call *)
click_update(c) == [c EXCEPT !.is_clicked = TRUE]

(* a click that counts the bomb cells too *)
click_update_ret_all(c) == 1

(* Cell.click_update: the value returned *)
click_update_ret(c) == IF c.is_bomb THEN 0 ELSE 1

(* a right click that opens the cell it flags *)
flag_update_opening(c) ==
    IF c.is_clicked THEN c
    ELSE IF c.is_flagged THEN [c EXCEPT !.is_flagged = FALSE]
    ELSE [c EXCEPT !.is_flagged = TRUE, !.is_clicked = TRUE]

(* flag_update without the test of is_clicked *)
flag_update_unguarded(c) == [c EXCEPT !.is_flagged = ~@]

(* a flag that is set and never taken off again *)
flag_update_sticky(c) ==
    IF c.is_clicked THEN c ELSE [c EXCEPT !.is_flagged = TRUE]

(* Cell.flag_update *)
flag_update(c) ==
    IF c.is_clicked THEN c
    ELSE IF c.is_flagged THEN [c EXCEPT !.is_flagged = FALSE]
    ELSE [c EXCEPT !.is_flagged = TRUE]

-----------------------------------------------------------------------------
(* Game *)

(* the inner loop of Game.__init__: the cells of column i, in order *)
CellColumn(i, n_cells_y) == [j \in 1..n_cells_y |-> Cell(i, j - 1)]

(* the outer loop of Game.__init__: the cells appended from column i on *)
RECURSIVE CellList(_, _, _)
CellList(i, n_cells_x, n_cells_y) ==
    IF i >= n_cells_x THEN <<>>
    ELSE CellColumn(i, n_cells_y) \o CellList(i + 1, n_cells_x, n_cells_y)

(* Game.__init__; self.cells is indexed from 0 as the Python list is.      *)
(* self.bombs is None until set_bombs: no cell is in it.                   *)
Game(n_cells_x, n_cells_y, n_bombs) ==
    LET lst == CellList(0, n_cells_x, n_cells_y)
    IN [n_cells_x |-> n_cells_x,
        n_cells_y |-> n_cells_y,
        n_bombs |-> n_bombs,
        n_cells |-> n_cells_x * n_cells_y,
        n_clicked_cells |-> 0,
        cells |-> [k \in 0..(Len(lst) - 1) |-> lst[k + 1]],
        bombs |-> {},
        surround_grid |-> <<>>,
        won |-> FALSE,
        lost |-> FALSE]

(* the kernel of count_surrounding_bombs: ones, with the centre zeroed *)
kernel == [p \in (0..2) \X (0..2) |-> IF p = <<1, 1>> THEN 0 ELSE 1]

(* scipy.signal.convolve2d(grid, k, mode="same") with a 3x3 kernel and the *)
(* default zero fill: out[x,y] = sum_{a,b} k[a,b] * grid[x+1-a, y+1-b]     *)
convolve2d(grid, k, nx, ny) ==
    [p \in (0..(nx - 1)) \X (0..(ny - 1)) |->
        SumOver((0..2) \X (0..2),
                [q \in (0..2) \X (0..2) |->
                    LET sx == p[1] + 1 - q[1]
                        sy == p[2] + 1 - q[2]
                    IN IF sx \in 0..(nx - 1) /\ sy \in 0..(ny - 1)
                       THEN k[q] * grid[<<sx, sy>>]
                       ELSE 0])]

(* the 2d bomb grid of count_surrounding_bombs *)
bomb_grid(g) ==
    [p \in (0..(g.n_cells_x - 1)) \X (0..(g.n_cells_y - 1)) |->
        IF \E bomb \in g.bombs :
              p = <<bomb \div g.n_cells_y, bomb % g.n_cells_y>>
        THEN 1 ELSE 0]

(* count_surrounding_bombs with the bomb grid filled by rows of n_cells_x *)
count_surrounding_bombs_transposed(g) ==
    LET bg == [p \in (0..(g.n_cells_x - 1)) \X (0..(g.n_cells_y - 1)) |->
                  IF \E bomb \in g.bombs :
                        p = <<bomb % g.n_cells_x, bomb \div g.n_cells_x>>
                  THEN 1 ELSE 0]
        conv == convolve2d(bg, kernel, g.n_cells_x, g.n_cells_y)
        zeroed == [p \in DOMAIN conv |-> IF bg[p] = 1 THEN 0 ELSE conv[p]]
    IN [i \in 0..(g.n_cells - 1) |->
           zeroed[<<i \div g.n_cells_y, i % g.n_cells_y>>]]

(* Game.count_surrounding_bombs: the flattened (row-major) array *)
count_surrounding_bombs(g) ==
    LET bg == bomb_grid(g)
        conv == convolve2d(bg, kernel, g.n_cells_x, g.n_cells_y)
        zeroed == [p \in DOMAIN conv |-> IF bg[p] = 1 THEN 0 ELSE conv[p]]
    IN [i \in 0..(g.n_cells - 1) |->
           zeroed[<<i \div g.n_cells_y, i % g.n_cells_y>>]]

(* a shift that leaves a draw equal to the clicked cell where it is *)
shift_bomb_late(bomb, cell_no) == IF bomb > cell_no THEN bomb + 1 ELSE bomb

(* line 62 of set_bombs: the shift that skips the clicked cell *)
shift_bomb(bomb, cell_no) == IF bomb >= cell_no THEN bomb + 1 ELSE bomb

(* set_bombs that gives the bomb cells their entry of surround_grid too *)
set_bombs_counted(g, cell_no, draw) ==
    LET g1 == [g EXCEPT !.bombs = {shift_bomb(bomb, cell_no) : bomb \in draw}]
        g2 == [g1 EXCEPT !.surround_grid = count_surrounding_bombs(g1)]
    IN [g2 EXCEPT !.cells =
           [i \in DOMAIN g2.cells |->
               [g2.cells[i] EXCEPT !.is_bomb = i \in g2.bombs,
                                   !.surrounding = g2.surround_grid[i]]]]

(* Game.set_bombs; draw is the result of random.sample(range(n_cells-1),   *)
(* n_bombs): n_bombs distinct values, whose order no later step reads.     *)
set_bombs(g, cell_no, draw) ==
    LET g1 == [g EXCEPT !.bombs = {shift_bomb(bomb, cell_no) : bomb \in draw}]
        g2 == [g1 EXCEPT !.surround_grid = count_surrounding_bombs(g1)]
    IN [g2 EXCEPT !.cells =
           [i \in DOMAIN g2.cells |->
               IF i \in g2.bombs
               THEN [g2.cells[i] EXCEPT !.is_bomb = TRUE]
               ELSE [g2.cells[i] EXCEPT !.surrounding = g2.surround_grid[i]]]]

(* the results of random.sample(range(n_cells - 1), n_bombs) *)
Samples(g) ==
    {s \in SUBSET (0..(g.n_cells - 2)) : Cardinality(s) = g.n_bombs}

(* a lost game that does not show the other bombs *)
click_bomb_hidden(g) == [g EXCEPT !.lost = TRUE]

(* bombs shown without the game being lost *)
click_bomb_unlost(g) ==
    [g EXCEPT !.cells = [i \in DOMAIN g.cells |->
                            IF g.cells[i].is_bomb
                            THEN click_update(g.cells[i])
                            ELSE g.cells[i]]]

(* lines 96-100: the game is lost and every bomb cell is clicked *)
click_bomb(g) ==
    [g EXCEPT !.lost = TRUE,
              !.cells = [i \in DOMAIN g.cells |->
                            IF g.cells[i].is_bomb
                            THEN click_update(g.cells[i])
                            ELSE g.cells[i]]]

(* bombs that are set again as long as one cell at most is clicked *)
needs_bombs_again(g) == g.n_clicked_cells <= 1

(* line 90: no cell is clicked yet, the bombs are still to be set *)
needs_bombs(g) == g.n_clicked_cells = 0

(* a cascade that goes on from every cell that is no bomb *)
opens_surrounding_any(c) == c.surrounding >= 0

(* a cascade that also opens around the cells with one bomb around them *)
opens_surrounding_wide(c) == c.surrounding = 0 \/ c.surrounding = 1

(* line 103: the cell has no bomb around it, its surrounding cells open *)
opens_surrounding(c) == c.surrounding = 0

(* lines 104-121: the guards of the recursive calls *)
not_first_x(g, c) == c.x # 0
not_last_x(g, c) == c.x # g.n_cells_x - 1
not_first_y(g, c) == c.y # 0

(* the last row looked for with the number of columns *)
not_last_y_transposed(g, c) == c.y # g.n_cells_x - 1

not_last_y(g, c) == c.y # g.n_cells_y - 1

(* lines 93-102 for a cell that is not clicked: the bomb branch, then the  *)
(* click of the cell itself, counted by what click_update returns          *)
click_cell(g, k) ==
    LET g2 == IF g.cells[k].is_bomb THEN click_bomb(g) ELSE g
    IN [g2 EXCEPT !.n_clicked_cells = @ + click_update_ret(g2.cells[k]),
                  !.cells[k] = click_update(g2.cells[k])]

(* lines 104-122: the eight recursive calls of a cell c at cell_no, in the *)
(* order of the code, each the pair of its guard and of the index of the   *)
(* cell it is made on                                                      *)
surrounding_calls(g, c, cell_no) ==
    LET xlo == not_first_x(g, c)
        xhi == not_last_x(g, c)
        ylo == not_first_y(g, c)
        yhi == not_last_y(g, c)
    IN << <<xlo, cell_no - g.n_cells_y>>,
          <<xlo /\ ylo, cell_no - g.n_cells_y - 1>>,
          <<xlo /\ yhi, cell_no - g.n_cells_y + 1>>,
          <<xhi, cell_no + g.n_cells_y>>,
          <<xhi /\ ylo, cell_no + g.n_cells_y - 1>>,
          <<xhi /\ yhi, cell_no + g.n_cells_y + 1>>,
          <<ylo, cell_no - 1>>,
          <<yhi, cell_no + 1>> >>

(* Game.click_update_cell on self.cells[k], with the recursive calls it    *)
(* makes (lines 103-122, in the order of the code).  draw is what          *)
(* random.sample returns if set_bombs runs.  The statements run one after  *)
(* the other: CHOOSE r \in {e : s \in {v}} : TRUE is e with s standing for  *)
(* the value of v, computed once before e.  Read from the bottom up: g3 is *)
(* the game after line 102, s1 the game after the call of line 105, s2     *)
(* after that of line 107, and so on to the call of line 122; call is the  *)
(* list of the eight calls of the cell.                                    *)
RECURSIVE click_update_cell(_, _, _)
click_update_cell(g, k, draw) ==
    LET c == g.cells[k]
        cell_no == g.n_cells_y * c.x + c.y
        g1 == IF needs_bombs(g) THEN set_bombs(g, cell_no, draw) ELSE g
    IN
    IF g1.cells[k].is_clicked THEN g1
    ELSE
    CHOOSE r \in {
    IF ~opens_surrounding(g3.cells[k]) THEN g3
    ELSE
    CHOOSE r0 \in {
    CHOOSE r1 \in {
    CHOOSE r2 \in {
    CHOOSE r3 \in {
    CHOOSE r4 \in {
    CHOOSE r5 \in {
    CHOOSE r6 \in {
    CHOOSE r7 \in {
        IF call[8][1] THEN click_update_cell(s7, call[8][2], draw) ELSE s7
    : s7 \in {
        IF call[7][1] THEN click_update_cell(s6, call[7][2], draw) ELSE s6
    }} : TRUE
    : s6 \in {
        IF call[6][1] THEN click_update_cell(s5, call[6][2], draw) ELSE s5
    }} : TRUE
    : s5 \in {
        IF call[5][1] THEN click_update_cell(s4, call[5][2], draw) ELSE s4
    }} : TRUE
    : s4 \in {
        IF call[4][1] THEN click_update_cell(s3, call[4][2], draw) ELSE s3
    }} : TRUE
    : s3 \in {
        IF call[3][1] THEN click_update_cell(s2, call[3][2], draw) ELSE s2
    }} : TRUE
    : s2 \in {
        IF call[2][1] THEN click_update_cell(s1, call[2][2], draw) ELSE s1
    }} : TRUE
    : s1 \in {
        IF call[1][1] THEN click_update_cell(g3, call[1][2], draw) ELSE g3
    }} : TRUE
    : call \in {surrounding_calls(g, c, cell_no)}} : TRUE
    : g3 \in {click_cell(g1, k)}} : TRUE

-----------------------------------------------------------------------------
(* The event loop of __main__ *)

(* the arguments of Game(N_X, N_Y, N_BOMBS) the model is run on *)
Boards(max_x, max_y, max_cells, max_bombs) ==
    {b \in (1..max_x) \X (1..max_y) \X (0..(max_cells - 1)) :
        /\ b[1] * b[2] <= max_cells
        /\ b[3] < b[1] * b[2]
        /\ (b[3] <= max_bombs \/ b[3] = b[1] * b[2] - 1)}

Event(kind, cell, pre) == [kind |-> kind, cell |-> cell, pre |-> pre]

(* lines 176-200: the game is constructed *)
Start(boards) ==
    /\ \E b \in boards : game = Game(b[1], b[2], b[3])
    /\ pc = "loop"
    /\ last = Event("init", 0, game)

Init == Start(Boards(MaxX, MaxY, MaxCells, MaxBombs))

InitWide == Start(Boards(WideX, WideY, WideCells, WideBombs))

(* lines 202-204: the loop condition holds, and the win check of the frame *)
FrameStart ==
    /\ pc = "loop"
    /\ ~(game.won \/ game.lost)
    /\ game' = IF game.n_clicked_cells = game.n_cells - game.n_bombs
               THEN [game EXCEPT !.won = TRUE]
               ELSE game
    /\ pc' = "events"
    /\ last' = Event("frame", 0, game)

(* lines 211-216: a left click on the cell that holds the clicked pixel *)
LeftClick(k) ==
    /\ pc = "events"
    /\ \E draw \in (IF needs_bombs(game) THEN Samples(game) ELSE {{}}) :
           game' = click_update_cell(game, k, draw)
    /\ last' = Event("reveal", k, game)
    /\ UNCHANGED pc

(* lines 211-218: a right click on the cell that holds the clicked pixel *)
RightClick(k) ==
    /\ pc = "events"
    /\ \/ game.cells[k].is_clicked
       \/ game.cells[k].is_flagged
       \/ Cardinality({i \in DOMAIN game.cells : game.cells[i].is_flagged})
              < MaxFlagged
    /\ game' = [game EXCEPT !.cells[k] = flag_update(game.cells[k])]
    /\ last' = Event("flag", k, game)
    /\ UNCHANGED pc

(* lines 205, 220-222: the events of the frame are through *)
FrameEnd ==
    /\ pc = "events"
    /\ pc' = "loop"
    /\ last' = Event("draw", 0, game)
    /\ UNCHANGED game

(* lines 202, 225-239: the loop is left for the terminal message *)
GameOver ==
    /\ pc = "loop"
    /\ game.won \/ game.lost
    /\ pc' = "over"
    /\ last' = Event("over", 0, game)
    /\ UNCHANGED game

Next ==
    \/ FrameStart
    \/ \E k \in DOMAIN game.cells : LeftClick(k)
    \/ \E k \in DOMAIN game.cells : RightClick(k)
    \/ FrameEnd
    \/ GameOver

Spec == Init /\ [][Next]_vars

(* every event is a left click and arrives in the first frame *)
NextWide ==
    \/ FrameStart
    \/ \E k \in DOMAIN game.cells : LeftClick(k)

SpecWide == InitWide /\ [][NextWide]_vars

-----------------------------------------------------------------------------
(* Views of the state the properties are stated on *)

CellNos(g) == DOMAIN g.cells
Clicked(g) == {i \in CellNos(g) : g.cells[i].is_clicked}
Flagged(g) == {i \in CellNos(g) : g.cells[i].is_flagged}
BombCells(g) == {i \in CellNos(g) : g.cells[i].is_bomb}

(* set_bombs has run *)
HasBombs(g) == DOMAIN g.surround_grid # {}

(* the last event was a left click, and it was the first click of the game *)
FirstClickDone == last.kind = "reveal" /\ ~HasBombs(last.pre)

Abs(n) == IF n < 0 THEN -n ELSE n

(* the cells of the grid that touch cell i, by the coordinates of the cells *)
Around(g, i) ==
    {j \in CellNos(g) :
        /\ j # i
        /\ Abs(g.cells[j].x - g.cells[i].x) <= 1
        /\ Abs(g.cells[j].y - g.cells[i].y) <= 1}

BombsAround(g, i) == Cardinality(Around(g, i) \cap BombCells(g))

(* a cell without a bomb on it or around it *)
ZeroCell(g, i) == ~g.cells[i].is_bomb /\ BombsAround(g, i) = 0

(* the zero cells joined to the cells of R by chains of touching zero cells *)
RECURSIVE ZeroRegion(_, _)
ZeroRegion(g, R) ==
    LET more == {j \in CellNos(g) :
                    ZeroCell(g, j) /\ \E r \in R : j \in Around(g, r)}
    IN IF more \subseteq R THEN R ELSE ZeroRegion(g, R \cup more)

(* what a reveal of cell t is to open *)
Closure(g, t) ==
    IF ZeroCell(g, t)
    THEN LET Z == ZeroRegion(g, {t})
         IN Z \cup UNION {Around(g, z) : z \in Z}
    ELSE {t}

-----------------------------------------------------------------------------
(* Properties *)

(* C1: the first reveal(e) sets exactly n_bombs distinct bombs, all of     *)
(* them cells of the board and none of them the clicked cell e, and the    *)
(* cells marked as bombs are those.                                        *)
C1_MineLayout ==
    FirstClickDone =>
        /\ Cardinality(game.bombs) = game.n_bombs
        /\ game.bombs \subseteq 0..(game.n_cells - 1)
        /\ last.cell \notin game.bombs
        /\ BombCells(game) = game.bombs

(* a first click with a bomb on either side of it, the one right after it  *)
(* being the draw that the shift moved off the clicked cell                *)
C1_Witness ==
    /\ FirstClickDone
    /\ last.cell + 1 \in game.bombs
    /\ \E b \in game.bombs : b < last.cell

C3_CascadeClosure ==
    (/\ last.kind = "reveal"
     /\ ~last.pre.cells[last.cell].is_clicked
     /\ ~game.cells[last.cell].is_bomb) =>
        /\ Clicked(game) = Clicked(last.pre) \cup Closure(game, last.cell)
        /\ ZeroCell(game, last.cell) =>
               ZeroRegion(game, {last.cell}) \cap Clicked(last.pre) = {}

(* a cascade over a zero region of several cells that stops short of some  *)
(* cell without a bomb, after an earlier click had opened part of its edge *)
C3_Witness ==
    /\ last.kind = "reveal"
    /\ ~last.pre.cells[last.cell].is_clicked
    /\ ZeroCell(game, last.cell)
    /\ Cardinality(ZeroRegion(game, {last.cell})) >= 2
    /\ Closure(game, last.cell) \cap Clicked(last.pre) # {}
    /\ \E i \in CellNos(game) :
           ~game.cells[i].is_bomb /\ ~game.cells[i].is_clicked

(* the number of clicked cells at which the game is won (line 203) *)
SafeCells(g) == g.n_cells - g.n_bombs

(* the last event was an input event: a left or a right click on a cell *)
InputDone == last.kind \in {"reveal", "flag"}

(* C4 as claimed: whenever a top-level reveal has completed, won is true   *)
(* exactly when n_clicked_cells = n_cells - n_bombs.                       *)
C4_WonWhenAllSafeClicked ==
    last.kind = "reveal" =>
        (game.won <=> game.n_clicked_cells = SafeCells(game))

(* C5 as claimed: won and lost are never both true.                        *)
C5_NotWonAndLost == ~(game.won /\ game.lost)

(* C6 as claimed: an input event that arrives when won or lost is true     *)
(* changes nothing of the game.                                            *)
C6_TerminalFrozen ==
    (InputDone /\ (last.pre.won \/ last.pre.lost)) => game = last.pre

(* C7: a left click on a bomb cell that was not clicked sets lost and      *)
(* leaves every bomb cell clicked, flagged or not.                         *)
C7_BombClickLoses ==
    (/\ last.kind = "reveal"
     /\ last.pre.cells[last.cell].is_bomb
     /\ ~last.pre.cells[last.cell].is_clicked) =>
        /\ game.lost
        /\ BombCells(game) \subseteq Clicked(game)

(* a left click on a bomb while another bomb cell carried a flag *)
C7_Witness ==
    /\ last.kind = "reveal"
    /\ last.pre.cells[last.cell].is_bomb
    /\ ~last.pre.cells[last.cell].is_clicked
    /\ ~last.pre.lost
    /\ \E i \in BombCells(last.pre) \cap Flagged(last.pre) :
           i # last.cell /\ ~last.pre.cells[i].is_clicked

(* C8 as claimed: a left click leaves unclicked every cell that was        *)
(* flagged and not clicked, and when its target is such a cell it leaves   *)
(* n_clicked_cells, won and lost as they were.                             *)
C8_RevealSkipsFlagged ==
    last.kind = "reveal" =>
        /\ \A i \in Flagged(last.pre) \ Clicked(last.pre) :
               ~game.cells[i].is_clicked
        /\ last.cell \in Flagged(last.pre) \ Clicked(last.pre) =>
               /\ game.n_clicked_cells = last.pre.n_clicked_cells
               /\ game.won = last.pre.won
               /\ game.lost = last.pre.lost

(* C9: a left click on a cell that is clicked already changes nothing of   *)
(* the game: no cell, counter or flag, not the bombs, not the counts.      *)
C9_ClickedNoop ==
    (last.kind = "reveal" /\ last.pre.cells[last.cell].is_clicked) =>
        game = last.pre

(* a second left click on a clicked cell of a game still going on, with    *)
(* cells left to open                                                      *)
C9_Witness ==
    /\ last.kind = "reveal"
    /\ last.pre.cells[last.cell].is_clicked
    /\ ~game.lost
    /\ game.bombs # {}
    /\ game.n_clicked_cells < SafeCells(game)

(* C10: lost is true exactly when some bomb cell is clicked.               *)
C10_LostIffBombClicked ==
    game.lost <=> (BombCells(game) \cap Clicked(game) # {})

(* a lost game, its bombs shown, after the loop has been left *)
C10_Witness ==
    /\ pc = "over"
    /\ game.lost
    /\ Cardinality(BombCells(game) \cap Clicked(game)) >= 2

(* C11: a right click on a cell changes nothing of the game but, at most,  *)
(* is_flagged of that cell: n_clicked_cells, won, lost, the bombs, every   *)
(* count, every is_clicked and the flags of the other cells stay.          *)
C11_FlagFrame ==
    last.kind = "flag" =>
        game = [last.pre EXCEPT
                   !.cells[last.cell].is_flagged =
                       game.cells[last.cell].is_flagged]

(* a flag set on a cell of a game that is under way, short of being won *)
C11_Witness ==
    /\ last.kind = "flag"
    /\ game.cells[last.cell].is_flagged
    /\ ~last.pre.cells[last.cell].is_flagged
    /\ game.bombs # {}
    /\ game.n_clicked_cells > 0
    /\ game.n_clicked_cells < SafeCells(game)

(* C12: a right click on a clicked cell changes nothing: the cell keeps    *)
(* the flag it had when it was clicked, and the rest of the game stays.    *)
C12_FlagClickedNoop ==
    (last.kind = "flag" /\ last.pre.cells[last.cell].is_clicked) =>
        game = last.pre

(* a right click on a cell that was clicked with its flag on *)
C12_Witness ==
    /\ last.kind = "flag"
    /\ last.pre.cells[last.cell].is_clicked
    /\ last.pre.cells[last.cell].is_flagged

(* the game is neither won nor lost *)
Running(g) == ~(g.won \/ g.lost)

(* C13: in a game neither won nor lost, a right click on a cell that is    *)
(* not clicked flips its is_flagged, and a second right click on it, right *)
(* after the first, gives back the game as it was before the first.        *)
C13_FlagTwice ==
    /\ []((/\ last.kind = "flag"
           /\ Running(last.pre)
           /\ ~last.pre.cells[last.cell].is_clicked) =>
              game.cells[last.cell].is_flagged =
                  ~last.pre.cells[last.cell].is_flagged)
    /\ [][(/\ last.kind = "flag"
           /\ Running(last.pre)
           /\ ~last.pre.cells[last.cell].is_clicked
           /\ last'.kind = "flag"
           /\ last'.cell = last.cell) =>
              game' = last.pre]_vars

(* a right click that takes off the only flag of a game in which no cell   *)
(* is clicked: the flag it takes off was set on the same cell              *)
C13_Witness ==
    /\ last.kind = "flag"
    /\ Running(last.pre)
    /\ last.pre.cells[last.cell].is_flagged
    /\ Flagged(last.pre) = {last.cell}
    /\ Flagged(game) = {}
    /\ Clicked(game) = {}

(* the bombs of a game and the counts around its cells, as the game keeps  *)
(* them and as its cells keep them                                         *)
Layout(g) ==
    [bombs |-> g.bombs,
     surround_grid |-> g.surround_grid,
     cells |-> [i \in CellNos(g) |->
                   <<g.cells[i].is_bomb, g.cells[i].surrounding>>]]

(* C14: the bombs are set once, by the first left click. Until then no     *)
(* cell is a bomb and no cell has a count, whatever was flagged; it is a   *)
(* left click that sets them, every left click leaves a game with its      *)
(* bombs set, and no event changes bombs or counts once they are set.      *)
C14_LayoutOnce ==
    /\ ~HasBombs(game) =>
           /\ Layout(game) = Layout(Game(game.n_cells_x, game.n_cells_y,
                                         game.n_bombs))
           /\ Clicked(game) = {}
    /\ (HasBombs(game) /\ ~HasBombs(last.pre)) => last.kind = "reveal"
    /\ last.kind = "reveal" => HasBombs(game)
    /\ HasBombs(last.pre) => Layout(game) = Layout(last.pre)

(* a left click, after the first, that opens a cell and its surrounding    *)
(* cells in a game that has a bomb and a flagged cell                      *)
C14_Witness ==
    /\ last.kind = "reveal"
    /\ HasBombs(last.pre)
    /\ game.bombs # {}
    /\ Flagged(game) # {}
    /\ game.n_clicked_cells > last.pre.n_clicked_cells + 1

(* the cells an event has clicked *)
NewlyClicked == Clicked(game) \ Clicked(last.pre)

(* C15: a left click on any cell of any game returns, with the cell       *)
(* clicked. No event takes a clicked cell back to unclicked, and a left    *)
(* click runs lines 96-122 once at most on a                               *)
(* cell: n_clicked_cells, which line 102 adds to at each run on a cell     *)
(* that is no bomb, grows by the number of such cells the click has        *)
(* clicked, and the cells it has clicked are n_cells at most.              *)
C15_ClickTerminates ==
    /\ Clicked(last.pre) \subseteq Clicked(game)
    /\ last.kind = "reveal" =>
           /\ game.n_clicked_cells - last.pre.n_clicked_cells =
                  Cardinality(NewlyClicked \ BombCells(game))
           /\ Cardinality(NewlyClicked) <= game.n_cells
    /\ pc = "events" =>
           \A k \in CellNos(game) :
               \A draw \in (IF needs_bombs(game) THEN Samples(game)
                             ELSE {{}}) :
                   Clicked(game) \cup {k}
                       \subseteq Clicked(click_update_cell(game, k, draw))

(* a left click whose cascade comes to a cell from two cells and leaves    *)
(* cells unclicked around a bomb                                           *)
C15_Witness ==
    /\ last.kind = "reveal"
    /\ game.bombs # {}
    /\ game.n_clicked_cells < SafeCells(game)
    /\ \E i \in NewlyClicked :
           Cardinality({j \in NewlyClicked \cap Around(game, i) :
                           opens_surrounding(game.cells[j])}) >= 2

(* the indices of the recursive calls that lines 104-122 make for cell k *)
CallsMade(g, k) ==
    LET c == g.cells[k]
        call == surrounding_calls(g, c, g.n_cells_y * c.x + c.y)
    IN {call[j][2] : j \in {i \in DOMAIN call : call[i][1]}}

(* C16: on every board, for every cell, the recursive calls of lines       *)
(* 104-122 are made on the cells that are next to it in the grid, all of   *)
(* them and no other: every index is one of a cell, and of a cell one      *)
(* column and one row away at most.  The cell made for (x, y) is at index  *)
(* n_cells_y * x + y, x and y are that index divided by n_cells_y and the  *)
(* remainder, and each (x, y) of the grid is that of one cell.             *)
C16_Neighbours ==
    /\ \A k \in CellNos(game) :
           \A c \in {game.cells[k]} :
               /\ game.n_cells_y * c.x + c.y = k
               /\ c.x = k \div game.n_cells_y
               /\ c.y = k % game.n_cells_y
               /\ c.x \in 0..(game.n_cells_x - 1)
               /\ c.y \in 0..(game.n_cells_y - 1)
               /\ \A made \in {CallsMade(game, k)} :
                      /\ made \subseteq CellNos(game)
                      /\ made = Around(game, k)
                      /\ \A i \in made :
                             /\ Abs(game.cells[i].x - c.x) <= 1
                             /\ Abs(game.cells[i].y - c.y) <= 1
                             /\ i # k
    /\ game.n_cells = game.n_cells_x * game.n_cells_y

(* a left click on a cell with eight cells around it and no bomb among     *)
(* them: the click opens the eight                                         *)
C16_Witness ==
    /\ last.kind = "reveal"
    /\ last.cell \notin Clicked(last.pre)
    /\ opens_surrounding(game.cells[last.cell])
    /\ Cardinality(CallsMade(game, last.cell)) = 8
    /\ CallsMade(game, last.cell) \subseteq NewlyClicked

(* C17: a left click on a bomb cell opens no cell around it: the cells it  *)
(* clicks are bomb cells, n_clicked_cells stays, and so does every flag.   *)
C17_BombClickNoCascade ==
    (last.kind = "reveal" /\ last.pre.cells[last.cell].is_bomb) =>
        /\ NewlyClicked \subseteq BombCells(game)
        /\ game.n_clicked_cells = last.pre.n_clicked_cells
        /\ \A i \in CellNos(game) :
               game.cells[i].is_flagged = last.pre.cells[i].is_flagged

(* a left click on a bomb cell that was not clicked, with a flag on the    *)
(* board and, around the bomb, a cell that is left unclicked               *)
C17_Witness ==
    /\ last.kind = "reveal"
    /\ last.pre.cells[last.cell].is_bomb
    /\ last.cell \in NewlyClicked
    /\ Flagged(game) # {}
    /\ Around(game, last.cell) \ Clicked(game) # {}

(* C18: n_clicked_cells is the number of clicked cells that are no bomb:   *)
(* the bombs clicked when the game is lost are not counted, no cell is     *)
(* counted twice, and the count is from 0 to n_cells - n_bombs.            *)
C18_ClickedCount ==
    /\ game.n_clicked_cells = Cardinality(Clicked(game) \ BombCells(game))
    /\ game.n_clicked_cells >= 0
    /\ game.n_clicked_cells <= SafeCells(game)

(* a lost game with its bombs clicked and cells that are no bomb, some     *)
(* clicked and some not                                                    *)
C18_Witness ==
    /\ game.lost
    /\ BombCells(game) # {}
    /\ BombCells(game) \subseteq Clicked(game)
    /\ game.n_clicked_cells > 1
    /\ game.n_clicked_cells < SafeCells(game)

(* C19: a left click on a cell that is no bomb clicks no bomb and does not *)
(* lose the game, however many cells it opens; the game is lost only by a  *)
(* left click on a bomb cell, and never by the first left click.           *)
C19_SafeClickSafe ==
    /\ (last.kind = "reveal" /\ ~game.cells[last.cell].is_bomb) =>
           /\ NewlyClicked \cap BombCells(game) = {}
           /\ game.lost = last.pre.lost
    /\ (game.lost /\ ~last.pre.lost) =>
           /\ last.kind = "reveal"
           /\ last.pre.cells[last.cell].is_bomb
    /\ FirstClickDone => ~game.lost

(* a left click on a cell that is no bomb, which opens cells up to those   *)
(* next to a bomb that stays unclicked                                     *)
C19_Witness ==
    /\ last.kind = "reveal"
    /\ ~game.cells[last.cell].is_bomb
    /\ Cardinality(NewlyClicked) >= 3
    /\ \E b \in BombCells(game) :
           /\ b \notin Clicked(game)
           /\ Around(game, b) \cap NewlyClicked # {}

====
